---- MODULE Spec2Model ----
(***************************************************************************)
(* Credential verification pipeline of mediconnect-infrastructure:         *)
(*   - DoctorDiplomaScanner/handler.py   (diploma handler, S3 trigger)     *)
(*   - DoctorDiplomaScanner/diploma_scanner.py (keyword validator)         *)
(*   - verify-identity/lambda_function.py (identity handler, HTTP)         *)
(*   - mediconnect-create-doctor / mediconnect-create-patient (records)    *)
(* The DynamoDB tables, the identity S3 bucket and the SNS topic are the   *)
(* state; every handler invocation is one action.                          *)
(***************************************************************************)
EXTENDS Integers, Sequences, FiniteSets, TLC

\* ------------------------------------------------------------------ state
VARIABLES
  followed,   \* the id whose uploads and requests this behaviour follows
  doctors,    \* table mediconnect-doctors: doctorId -> item
  patients,   \* table mediconnect-patients: patientId -> item
  objects,    \* bucket mediconnect-identity-verification: key -> object
  published,  \* per upload event: reviewer notifications published for it
  last        \* the invocation that led to this state: inputs and outcome

vars == <<followed, doctors, patients, objects, published, last>>

\* ------------------------------------------------------------------ bounds
\* Reviewer notifications followed per upload event: the event source stops
\* redelivering an event once this many were published for it.
MaxPublished == 2

\* ------------------------------------------------------- program constants
SimilarityThreshold == 80
ExpiresIn == 3600

\* ------------------------------------------------------------- characters
UpperChars == <<"A","B","C","D","E","F","G","H","I","J","K","L","M",
                "N","O","P","Q","R","S","T","U","V","W","X","Y","Z">>
LowerChars == <<"a","b","c","d","e","f","g","h","i","j","k","l","m",
                "n","o","p","q","r","s","t","u","v","w","x","y","z">>
DigitChars == <<"0","1","2","3","4","5","6","7","8","9">>

Range(s) == {s[i] : i \in DOMAIN s}

\* re.IGNORECASE: characters are compared after case folding.
Lower(c) ==
  IF \E i \in DOMAIN UpperChars : UpperChars[i] = c
  THEN LowerChars[CHOOSE i \in DOMAIN UpperChars : UpperChars[i] = c]
  ELSE c

\* The regex class \w, whose edges \b matches.
IsWordChar(c) ==
  c \in Range(UpperChars) \cup Range(LowerChars) \cup Range(DigitChars) \cup {"_"}

\* " ".join(detected_text)
RECURSIVE JoinLines(_)
JoinLines(lines) ==
  IF lines = <<>> THEN <<>>
  ELSE IF Len(lines) = 1 THEN lines[1]
  ELSE lines[1] \o <<" ">> \o JoinLines(Tail(lines))

\* The keyword list of scan_diploma, in declaration order.
required_keywords ==
  << <<"D","o","c","t","o","r">>,
     <<"M","e","d","i","c","i","n","e">>,
     <<"L","i","c","e","n","s","e">>,
     <<"B","o","a","r","d">>,
     <<"M","D">>,
     <<"S","u","r","g","e","o","n">>,
     <<"M","e","d","i","c","a","l">>,
     <<"S","u","r","g","e","r","y">>,
     <<"D","e","g","r","e","e">>,
     <<"D","i","p","l","o","m","a">> >>

\* Whether the keyword occurs at position i of the text, ignoring case.
OccursAt(kw, text, i) ==
  /\ i + Len(kw) - 1 <= Len(text)
  /\ \A j \in 1..Len(kw) : Lower(text[i + j - 1]) = Lower(kw[j])

\* Faulty variant of BoundaryAt: only the start of the keyword is at a word edge.
BoundaryAtStartOnly(kw, text, i) == i = 1 \/ ~IsWordChar(text[i - 1])

\* \b before position i and after position i + Len(kw) - 1 (a keyword starts
\* and ends with a word character).
BoundaryAt(kw, text, i) ==
  /\ (i = 1 \/ ~IsWordChar(text[i - 1]))
  /\ (i + Len(kw) - 1 = Len(text) \/ ~IsWordChar(text[i + Len(kw)]))

\* re.search(r'\b' + re.escape(keyword) + r'\b', full_text, re.IGNORECASE)
KeywordSearch(kw, text) ==
  \E i \in 1..Len(text) : OccursAt(kw, text, i) /\ BoundaryAt(kw, text, i)

\* matches_found: the matching keywords, in declaration order.
MatchesFound(text) ==
  SelectSeq(required_keywords, LAMBDA kw : KeywordSearch(kw, text))

\* Decision logic of scan_diploma: at least one keyword.
IsValid(text) == Len(MatchesFound(text)) >= 1

\* Faulty variant of scan_diploma: an extraction error is scanned as an empty
\* document.
scan_diploma_empty_on_error(extraction) ==
  LET lines == IF extraction.error THEN <<>> ELSE extraction.lines
  IN  [status |-> "success",
       verification_passed |-> IsValid(JoinLines(lines)),
       confidence_matches |-> MatchesFound(JoinLines(lines))]

\* scan_diploma(bucket, key): extraction is either the detected lines of the
\* document or an error of the extraction service.
scan_diploma(extraction) ==
  IF extraction.error
  THEN [status |-> "error", verification_passed |-> FALSE,
        confidence_matches |-> <<>>]
  ELSE [status |-> "success",
        verification_passed |-> IsValid(JoinLines(extraction.lines)),
        confidence_matches |-> MatchesFound(JoinLines(extraction.lines))]

\* ------------------------------------------------------------ record store
\* An attribute value is <<>> (attribute not present) or <<v>>.
None == <<>>
Some(v) == <<v>>

DoctorAttrs == {"verificationStatus", "isDiplomaAutoVerified",
                "isIdentityVerified", "avatar", "diplomaUrl"}
PatientAttrs == {"verificationStatus", "isIdentityVerified", "avatar"}

\* Faulty variant of UpdateItem: the item is replaced by the named attributes.
UpdateItemOverwrite(table, attrs, key, values) ==
  [k \in DOMAIN table \cup {key} |->
     IF k = key
     THEN [a \in attrs |-> IF a \in DOMAIN values THEN values[a] ELSE <<>>]
     ELSE table[k]]

\* DynamoDB update_item with a "set" expression and no condition: the item is
\* created when the key has none, the named attributes are overwritten and
\* every other attribute is kept.
UpdateItem(table, attrs, key, values) ==
  LET old == IF key \in DOMAIN table THEN table[key] ELSE [a \in attrs |-> None]
      new == [a \in attrs |-> IF a \in DOMAIN values THEN values[a] ELSE old[a]]
  IN  [k \in DOMAIN table \cup {key} |-> IF k = key THEN new ELSE table[k]]

\* mediconnect-create-doctor POST: the registered doctor item.
NewDoctorItem ==
  [verificationStatus |-> Some("UNVERIFIED"),
   isDiplomaAutoVerified |-> Some(FALSE),
   isIdentityVerified |-> Some(FALSE),
   avatar |-> None,
   diplomaUrl |-> None]

\* mediconnect-create-patient POST: the registered patient item (it carries
\* no verificationStatus attribute; avatar is stored as null).
NewPatientItem ==
  [verificationStatus |-> None,
   isIdentityVerified |-> Some(FALSE),
   avatar |-> None]

\* ------------------------------------------------------- diploma documents
\* S3 object keys of uploaded credentials, as s3_key.split('/') sees them.
KeyNested == <<"uploads", "doctors", "d1", "diploma.pdf">>
KeyShort  == <<"doctors", "d1", "cat.jpg">>
KeyFlat   == <<"diploma.pdf">>
DocKeys == {KeyNested, KeyShort, KeyFlat}
DocBucket == "mediconnect-doctor-credentials"

\* The LINE blocks the extraction service detects in each uploaded document.
DocumentLines(key) ==
  IF key = KeyNested THEN << <<"m","d">>, <<"B","o","a","r","d">> >>
  ELSE IF key = KeyShort THEN << <<"c","a","t">> >>
  ELSE << <<"A","B","C","M","D","X","Y","Z">>, <<"d","e","g","r","e","e","s">> >>

\* Faulty variant of ExtractDoctorId: without the second-segment branch.
ExtractDoctorIdNestedOnly(parts) ==
  IF Len(parts) > 2 /\ parts[2] = "doctors" THEN parts[3]
  ELSE "unknown_doc"

\* Step 2 of the diploma handler: the doctor id taken from the key path
\* (Python indexes parts from 0, TLA+ from 1).
ExtractDoctorId(parts) ==
  IF Len(parts) > 2 /\ parts[2] = "doctors" THEN parts[3]
  ELSE IF Len(parts) > 1 THEN parts[2]
  ELSE "unknown_doc"

\* Faulty variant of DiplomaUrl: the reference carries a per-delivery version.
DiplomaUrlVersioned(s3_bucket, s3_key) ==
  <<"s3://", s3_bucket, s3_key, published[s3_key]>>

\* f"s3://{s3_bucket}/{s3_key}"
DiplomaUrl(s3_bucket, s3_key) == <<"s3://", s3_bucket, s3_key>>

\* Faulty variant of PassUpdateValues: the auto-verified flag is not written.
PassUpdateWithoutFlag(s3_bucket, s3_key) ==
  [diplomaUrl |-> Some(<<"s3://", s3_bucket, s3_key>>),
   verificationStatus |-> Some("PENDING_REVIEW")]

\* The update issued when the scan passed (handler.py 55-63).
PassUpdateValues(s3_bucket, s3_key) ==
  [isDiplomaAutoVerified |-> Some(TRUE),
   diplomaUrl |-> Some(DiplomaUrl(s3_bucket, s3_key)),
   verificationStatus |-> Some("PENDING_REVIEW")]

\* Faulty variant of FailUpdateValues: the failing path leaves the flag as it was.
FailUpdateKeepsFlag(s3_bucket, s3_key) ==
  [diplomaUrl |-> Some(<<"s3://", s3_bucket, s3_key>>),
   verificationStatus |-> Some("REJECTED_AUTO")]

\* Faulty variant of FailUpdateValues: the failing path resets the status.
FailUpdateUnverified(s3_bucket, s3_key) ==
  [isDiplomaAutoVerified |-> Some(FALSE),
   diplomaUrl |-> Some(<<"s3://", s3_bucket, s3_key>>),
   verificationStatus |-> Some("UNVERIFIED")]

\* The update issued when the scan failed (handler.py 76-84).
FailUpdateValues(s3_bucket, s3_key) ==
  [isDiplomaAutoVerified |-> Some(FALSE),
   diplomaUrl |-> Some(DiplomaUrl(s3_bucket, s3_key)),
   verificationStatus |-> Some("REJECTED_AUTO")]

\* record_doctor_event: True only when the credentials were fetched and the
\* insert reported no errors; every failure is caught and returns False.
record_doctor_event(outcome) == outcome = "inserted"
AnalyticsOutcomes == {"inserted", "insert_errors"}

\* scan_diploma on each uploaded document, when extraction succeeds and when
\* it fails.
ScanResults ==
  [k \in DocKeys |->
     [ok |-> scan_diploma([error |-> FALSE, lines |-> DocumentLines(k)]),
      failed |-> scan_diploma([error |-> TRUE, lines |-> <<>>])]]

\* Faulty variant of PublishCalled: the alert does not wait for the update.
PublishCalledOnPass(scan_passed, db_ok) == scan_passed

\* Whether the run reaches sns.publish: in the passing branch, once update_item
\* has returned without raising (handler.py 52-71).
PublishCalled(scan_passed, db_ok) == scan_passed /\ db_ok

\* Faulty variant of DiplomaResponse: a failed record update is answered 500.
DiplomaResponseServerError(doctor_id, scan_passed, db_message) ==
  [statusCode |-> IF db_message = "DynamoDB Update Failed" THEN 500 ELSE 200,
   body |-> [message |-> "Processed", doctor_id |-> doctor_id,
             scan_passed |-> scan_passed, db_status |-> db_message]]

\* The return statement of the diploma handler (handler.py 91-99).
DiplomaResponse(doctor_id, scan_passed, db_message) ==
  [statusCode |-> 200,
   body |-> [message |-> "Processed", doctor_id |-> doctor_id,
             scan_passed |-> scan_passed, db_status |-> db_message]]

\* One run of the diploma handler on a structurally valid event, as a function
\* of the event and of what each collaborator answers:
\*   extract_ok  Textract returned the document's lines
\*   analytics   outcome of the BigQuery insert
\*   db_ok       update_item succeeded
\*   sns_ok      sns.publish succeeded
DiplomaRun(s3_bucket, s3_key, extract_ok, analytics, db_ok, sns_ok) ==
  LET scan_result == IF extract_ok THEN ScanResults[s3_key].ok
                     ELSE ScanResults[s3_key].failed
      doctor_id   == ExtractDoctorId(s3_key)
      scan_passed == scan_result.verification_passed
      values      == IF scan_passed THEN PassUpdateValues(s3_bucket, s3_key)
                     ELSE FailUpdateValues(s3_bucket, s3_key)
      publish_called == PublishCalled(scan_passed, db_ok)
      db_message  == IF ~db_ok THEN "DynamoDB Update Failed"
                     ELSE IF ~scan_passed THEN "DynamoDB Updated (Auto-Rejected)"
                     ELSE IF sns_ok THEN "DynamoDB Updated & Admin Alerted"
                     ELSE "DynamoDB Update Failed"
      response    == DiplomaResponse(doctor_id, scan_passed, db_message)
  IN  [statusCode |-> response.statusCode,
       body |-> response.body,
       scan_status |-> scan_result.status,
       matches |-> scan_result.confidence_matches,
       logged |-> record_doctor_event(analytics),
       update |-> [key |-> doctor_id, values |-> values],
       db_applied |-> db_ok,
       publish_called |-> publish_called,
       published |-> publish_called /\ sns_ok,
       calls |-> <<"textract.detect_document_text", "record_doctor_event",
                   "dynamodb.update_item">>
                 \o (IF publish_called THEN <<"sns.publish">> ELSE <<>>)]

\* ------------------------------------------------------- identity handler
BUCKET_NAME == "mediconnect-identity-verification"
DoctorIds == {"d1"}
PatientIds == {"p1"}

\* Base64 payloads of a request, by what b64decode makes of them.
ValidB64 == "valid_base64"
InvalidB64 == "invalid_base64"

\* Face similarities the comparison service measures between the ID card and
\* the selfie, best first; FaceMatches holds those at or above the threshold.
FaceSimilarities == {<<>>, <<79>>, <<80, 79>>, <<92, 85>>}

\* Faulty variant of FaceMatches: a pair must exceed the threshold.
FaceMatchesAbove(sims, threshold) == SelectSeq(sims, LAMBDA x : x > threshold)

\* response['FaceMatches'] of compare_faces called with SimilarityThreshold.
FaceMatches(sims, threshold) == SelectSeq(sims, LAMBDA x : x >= threshold)

\* Normalize role (lambda_function.py 34-35).
NormalizeRole(role) ==
  LET raw_role == IF role = None THEN "patient" ELSE role[1]
  IN  IF raw_role = "provider" THEN "doctor" ELSE raw_role

\* Faulty variant of TableName: every role but patient is sent to the doctors
\* table.
TableNameUnlessPatient(user_role) ==
  IF user_role = "patient" THEN "mediconnect-patients" ELSE "mediconnect-doctors"

\* Select DynamoDB table (lambda_function.py 38).
TableName(user_role) ==
  IF user_role = "doctor" THEN "mediconnect-doctors" ELSE "mediconnect-patients"

IdCardKey(user_role, user_id) == <<user_role, user_id, "id_card.jpg">>
SelfieKey(user_role, user_id) == <<user_role, user_id, "selfie_verified.jpg">>

\* s3.generate_presigned_url: a time-limited URL for the key.
PresignedUrl(key) == <<"https://", BUCKET_NAME, key, "X-Amz-Expires", ExpiresIn>>

\* s3.put_object replaces the object; a replaced object carries no tags.
PutObject(objs, key) ==
  [k \in DOMAIN objs \cup {key} |->
     IF k = key THEN [tagged |-> FALSE] ELSE objs[k]]

\* s3.put_object_tagging with the auto-delete tag.
PutObjectTagging(objs, key) ==
  [k \in DOMAIN objs |-> IF k = key THEN [tagged |-> TRUE] ELSE objs[k]]

\* Faulty variant of IdentityStatus: a matched doctor is approved outright.
IdentityStatusApproved(user_role) ==
  IF user_role = "doctor" THEN "OFFICER_APPROVED" ELSE "VERIFIED"

\* The status written on a successful match (lambda_function.py 142).
IdentityStatus(user_role) ==
  IF user_role = "doctor" THEN "PENDING_REVIEW" ELSE "VERIFIED"

\* Faulty variant of IdentityUpdateValues: the presigned URL is stored as the avatar.
IdentityUpdateStoresUrl(user_role, selfie_key) ==
  [avatar |-> Some(PresignedUrl(selfie_key)),
   isIdentityVerified |-> Some(TRUE),
   verificationStatus |-> Some(IF user_role = "doctor" THEN "PENDING_REVIEW"
                               ELSE "VERIFIED")]

\* The update issued on a successful match (lambda_function.py 138-143).
IdentityUpdateValues(user_role, selfie_key) ==
  [avatar |-> Some(selfie_key),
   isIdentityVerified |-> Some(TRUE),
   verificationStatus |-> Some(IdentityStatus(user_role))]

\* Faulty variant of IsMatch: an empty FaceMatches list counts as a match.
IsMatchAlways(face_matches) == Len(face_matches) >= 0

\* if len(response['FaceMatches']) > 0 (lambda_function.py 98).
IsMatch(face_matches) == Len(face_matches) > 0

\* Faulty variant of IdSupplied: the ID card step is skipped.
IdSuppliedNever(idImage) == FALSE

\* Faulty variant of IdSupplied: the ID card step runs whatever the request holds.
IdSuppliedAlways(idImage) == TRUE

\* if 'idImage' in body and body['idImage'] (lambda_function.py 55).
IdSupplied(idImage) == idImage # None /\ idImage # Some("")

\* What compare_faces answers: a service error other than the missing-object
\* one, or the similarities it measured.
CompareOutcomes ==
  {[error |-> TRUE, sims |-> <<>>]} \cup
  {[error |-> FALSE, sims |-> x] : x \in FaceSimilarities}

\* The body of the 200 response (lambda_function.py 155-164).
IdentityBody(verification_result, confidence, message, secure_url_for_frontend) ==
  [verified |-> verification_result,
   confidence |-> confidence,
   message |-> message,
   photoUrl |-> IF verification_result THEN secure_url_for_frontend ELSE None]

\* A response that ends the run early: its body is a message only.
EarlyReturn(code, outcome, calls, objs) ==
  [statusCode |-> code, outcome |-> outcome, calls |-> calls,
   objects |-> objs, update |-> None, db_applied |-> FALSE,
   verified |-> FALSE, confidence |-> 0, photoUrl |-> None,
   message |-> outcome, db_status |-> None, body |-> [message |-> outcome]]

\* Steps 4 and 5 of the identity handler, once the ID card step is over.
\* compare_faces raises InvalidS3ObjectException when the ID card object does
\* not exist; any other exception only sets the failure message.
CompareAndUpdate(objs, calls0, user_role, user_id, compare, put_selfie_ok, db_ok) ==
  LET id_card_key == IdCardKey(user_role, user_id)
      calls1 == calls0 \o <<"rekognition.compare_faces">>
      matches == IF compare.error THEN <<>>
                 ELSE FaceMatches(compare.sims, SimilarityThreshold)
      verification_result == ~compare.error /\ IsMatch(matches)
      confidence == IF verification_result /\ matches # <<>> THEN matches[1] ELSE 0
      selfie_key == SelfieKey(user_role, user_id)
  IN  IF compare.error
      THEN [statusCode |-> 200, outcome |-> "completed", calls |-> calls1,
            objects |-> objs, update |-> None, db_applied |-> FALSE,
            verified |-> FALSE, confidence |-> 0, photoUrl |-> None,
            message |-> "Face comparison failed. Ensure images are clear.",
            db_status |-> Some("Skipped"),
            body |-> IdentityBody(FALSE, 0,
                       "Face comparison failed. Ensure images are clear.", None)]
      ELSE IF id_card_key \notin DOMAIN objs
      THEN EarlyReturn(404, "missing_reference", calls1, objs)
      ELSE IF ~verification_result
      THEN [statusCode |-> 200, outcome |-> "completed", calls |-> calls1,
            objects |-> objs, update |-> None, db_applied |-> FALSE,
            verified |-> FALSE, confidence |-> confidence, photoUrl |-> None,
            message |-> "Face does not match the provided ID card.",
            db_status |-> Some("Skipped"),
            body |-> IdentityBody(FALSE, confidence,
                       "Face does not match the provided ID card.", None)]
      ELSE IF ~put_selfie_ok
      THEN EarlyReturn(500, "server_error", calls1 \o <<"s3.put_object:selfie">>,
                       objs)
      ELSE [statusCode |-> 200, outcome |-> "completed",
            calls |-> calls1 \o <<"s3.put_object:selfie",
                                  "s3.generate_presigned_url",
                                  "dynamodb.update_item">>,
            objects |-> PutObject(objs, selfie_key),
            update |-> Some([table |-> TableName(user_role), key |-> user_id,
                             values |-> IdentityUpdateValues(user_role, selfie_key)]),
            db_applied |-> db_ok,
            verified |-> TRUE, confidence |-> confidence,
            photoUrl |-> Some(PresignedUrl(selfie_key)),
            message |-> "Identity Verified.",
            db_status |-> Some(IF db_ok THEN "Profile Updated" ELSE "DB Error"),
            body |-> IdentityBody(TRUE, confidence, "Identity Verified.",
                                  Some(PresignedUrl(selfie_key)))]

\* One POST run of the identity handler, as a function of the image store's
\* objects, the request and what each collaborator answers.
\*   req  [body_ok, userId, role, selfieImage, idImage] (fields optional)
\*   env  [put_id_ok, tag_ok, compare, put_selfie_ok, db_ok]
IdentityRun(objs, req, env) ==
  IF ~req.body_ok THEN EarlyReturn(500, "server_error", <<>>, objs)
  ELSE IF req.userId = None \/ req.userId = Some("")
  THEN EarlyReturn(400, "bad_request", <<>>, objs)
  ELSE IF req.selfieImage = None THEN EarlyReturn(400, "bad_request", <<>>, objs)
  ELSE IF req.selfieImage = Some(InvalidB64)
  THEN EarlyReturn(400, "bad_request", <<>>, objs)
  ELSE
    LET user_id == req.userId[1]
        user_role == NormalizeRole(req.role)
        id_card_key == IdCardKey(user_role, user_id)
        id_supplied == IdSupplied(req.idImage)
    IN  IF id_supplied /\ req.idImage = Some(InvalidB64)
        THEN EarlyReturn(500, "id_card_failed", <<>>, objs)
        ELSE IF id_supplied /\ ~env.put_id_ok
        THEN EarlyReturn(500, "id_card_failed", <<"s3.put_object:id_card">>, objs)
        ELSE IF id_supplied /\ ~env.tag_ok
        THEN EarlyReturn(500, "id_card_failed",
                         <<"s3.put_object:id_card", "s3.put_object_tagging">>,
                         PutObject(objs, id_card_key))
        ELSE IF id_supplied
        THEN CompareAndUpdate(
               PutObjectTagging(PutObject(objs, id_card_key), id_card_key),
               <<"s3.put_object:id_card", "s3.put_object_tagging">>,
               user_role, user_id, env.compare, env.put_selfie_ok, env.db_ok)
        ELSE CompareAndUpdate(objs, <<>>, user_role, user_id,
                              env.compare, env.put_selfie_ok, env.db_ok)

\* Requests the identity endpoint receives for a user id: well-formed ones of
\* a doctor (role doctor or provider) or of a patient (role patient, none, or
\* a value the handler does not know),
\* and ones with a single defect (unparsable body, missing or empty userId,
\* missing or undecodable selfie, undecodable or empty ID image).
Request(body_ok, userId, role, selfieImage, idImage) ==
  [body_ok |-> body_ok, userId |-> userId, role |-> role,
   selfieImage |-> selfieImage, idImage |-> idImage]
RolesOf(id) ==
  IF id \in DoctorIds THEN {Some("doctor"), Some("provider")}
  ELSE IF id \in PatientIds THEN {None, Some("patient"), Some("admin")}
  ELSE {}
WellFormedRequests(id) ==
  {Request(TRUE, Some(id), r, Some(ValidB64), i) :
     r \in RolesOf(id), i \in {None, Some(ValidB64)}}
DefectiveRequests(id) ==
  IF id \notin DoctorIds THEN {}
  ELSE {Request(FALSE, Some(id), Some("doctor"), Some(ValidB64), Some(ValidB64))}
       \cup {Request(TRUE, u, Some("doctor"), Some(ValidB64), Some(ValidB64)) :
               u \in {None, Some("")}}
       \cup {Request(TRUE, Some(id), Some("doctor"), x, Some(ValidB64)) :
               x \in {None, Some(InvalidB64)}}
       \cup {Request(TRUE, Some(id), Some("doctor"), Some(ValidB64), i) :
               i \in {Some(""), Some(InvalidB64)}}

\* What the collaborators answer in one run: every comparison outcome with
\* the other calls succeeding, and each single failing call.
Env(put_id_ok, tag_ok, compare, put_selfie_ok, db_ok) ==
  [put_id_ok |-> put_id_ok, tag_ok |-> tag_ok, compare |-> compare,
   put_selfie_ok |-> put_selfie_ok, db_ok |-> db_ok]
BestMatch == [error |-> FALSE, sims |-> <<92, 85>>]
Nominal == Env(TRUE, TRUE, BestMatch, TRUE, TRUE)
Environments ==
  {Env(TRUE, TRUE, c, TRUE, TRUE) : c \in CompareOutcomes}
  \cup {Env(FALSE, TRUE, BestMatch, TRUE, TRUE),
        Env(TRUE, FALSE, BestMatch, TRUE, TRUE),
        Env(TRUE, TRUE, BestMatch, FALSE, TRUE),
        Env(TRUE, TRUE, BestMatch, TRUE, FALSE)}

\* The invocations followed: a request rejected before any call is made is
\* paired with one environment only, since no collaborator is asked.
Invocations(id) ==
  {<<r, e>> : r \in WellFormedRequests(id), e \in Environments}
  \cup {<<r, Nominal>> : r \in DefectiveRequests(id)}

\* The upload events whose key names a doctor id.
EventsOf(id) == {k \in DocKeys : ExtractDoctorId(k) = id}

\* The ids whose submissions a behaviour follows: the registered doctor, the
\* registered patient, and the id the diploma handler falls back to.
FollowedIds == DoctorIds \cup PatientIds \cup {"unknown_doc"}

\* ------------------------------------------------------------ invocations
\* The registered subjects: one doctor and one patient, as their create
\* handlers store them.
Init ==
  /\ followed \in FollowedIds
  /\ doctors = [id \in DoctorIds |-> NewDoctorItem]
  /\ patients = [id \in PatientIds |-> NewPatientItem]
  /\ objects = <<>>
  /\ published = [k \in DocKeys |-> 0]
  /\ last = [op |-> "init"]

\* The human officer's decision on a doctor under review (outside the
\* repository): PENDING_REVIEW becomes OFFICER_APPROVED.
OfficerApprove ==
  \E id \in DOMAIN doctors :
    /\ doctors[id].verificationStatus = Some("PENDING_REVIEW")
    /\ doctors' = UpdateItem(doctors, DoctorAttrs, id,
                             [verificationStatus |-> Some("OFFICER_APPROVED")])
    /\ last' = [op |-> "officer", key |-> id]
    /\ UNCHANGED <<followed, patients, objects, published>>

\* DoctorDiplomaScanner lambda_handler on an event without Records/bucket/key.
DiplomaInvalidEvent ==
  /\ last' = [op |-> "diploma", valid |-> FALSE, statusCode |-> 400,
              calls |-> <<>>]
  /\ UNCHANGED <<followed, doctors, patients, objects, published>>

\* DoctorDiplomaScanner lambda_handler on an upload event for s3_key.
DiplomaHandler ==
  \E s3_key \in EventsOf(followed), extract_ok \in BOOLEAN, analytics \in AnalyticsOutcomes,
     db_ok \in BOOLEAN, sns_ok \in BOOLEAN :
    LET run == DiplomaRun(DocBucket, s3_key, extract_ok, analytics, db_ok, sns_ok)
    IN  /\ published[s3_key] < MaxPublished
        /\ doctors' = IF run.db_applied
                      THEN UpdateItem(doctors, DoctorAttrs, run.update.key,
                                      run.update.values)
                      ELSE doctors
        /\ published' = [published EXCEPT ![s3_key] = IF run.published THEN @ + 1 ELSE @]
        /\ last' = [op |-> "diploma", valid |-> TRUE, statusCode |-> run.statusCode,
                    key |-> s3_key, run |-> run, calls |-> run.calls,
                    env |-> [extract_ok |-> extract_ok, analytics |-> analytics,
                             db_ok |-> db_ok, sns_ok |-> sns_ok]]
        /\ UNCHANGED <<followed, patients, objects>>

\* verify-identity lambda_handler, CORS preflight.
IdentityPreflight ==
  /\ last' = [op |-> "identity", method |-> "OPTIONS", statusCode |-> 200,
              calls |-> <<>>]
  /\ UNCHANGED <<followed, doctors, patients, objects, published>>

\* verify-identity lambda_handler, POST.
IdentityHandler ==
  \E inv \in Invocations(followed) :
    LET req == inv[1]
        env == inv[2]
        run == IdentityRun(objects, req, env)
        upd == run.update[1]
    IN  /\ objects' = run.objects
        /\ doctors' = IF run.db_applied /\ upd.table = "mediconnect-doctors"
                      THEN UpdateItem(doctors, DoctorAttrs, upd.key, upd.values)
                      ELSE doctors
        /\ patients' = IF run.db_applied /\ upd.table = "mediconnect-patients"
                       THEN UpdateItem(patients, PatientAttrs, upd.key, upd.values)
                       ELSE patients
        /\ last' = [op |-> "identity", method |-> "POST", statusCode |-> run.statusCode,
                    req |-> req, env |-> env, run |-> run, calls |-> run.calls]
        /\ UNCHANGED <<followed, published>>

Next ==
  \/ OfficerApprove
  \/ DiplomaInvalidEvent
  \/ DiplomaHandler
  \/ IdentityPreflight
  \/ IdentityHandler

Spec == Init /\ [][Next]_vars

\* ------------------------------------------------- the validator on texts
\* Documents read by scan_diploma are followed up to this many LINE blocks.
MaxLines == 2

\* LINE blocks the extraction service may detect: keywords in several letter
\* cases, keywords inside longer tokens, next to punctuation, digits and
\* underscores, split over two lines, and lines without any keyword.
\*   MD  md  ABCMDXYZ  degrees  Degree  M  D  cat  M.D  MD_1  (Diploma)
\*   Doctor of Medicine  pre-medical  Board2  and the empty line
DetectedLines ==
  {<<"M","D">>,
   <<"m","d">>,
   <<"A","B","C","M","D","X","Y","Z">>,
   <<"d","e","g","r","e","e","s">>,
   <<"D","e","g","r","e","e">>,
   <<"M">>,
   <<"D">>,
   <<"c","a","t">>,
   <<"M",".","D">>,
   <<"M","D","_","1">>,
   <<"(","D","i","p","l","o","m","a",")">>,
   <<"D","o","c","t","o","r"," ","o","f"," ","M","e","d","i","c","i","n","e">>,
   <<"p","r","e","-","m","e","d","i","c","a","l">>,
   <<"B","o","a","r","d","2">>,
   <<>>}

\* The documents followed: up to MaxLines detected lines.
TextInputs == UNION {[1..n -> DetectedLines] : n \in 0..MaxLines}

\* A document whose text the extraction service has detected.
ScanInit ==
  /\ followed \in DoctorIds
  /\ doctors = [id \in DoctorIds |-> NewDoctorItem]
  /\ patients = [id \in PatientIds |-> NewPatientItem]
  /\ objects = <<>>
  /\ published = [k \in DocKeys |-> 0]
  /\ \E lines \in TextInputs : last = [op |-> "text", lines |-> lines]

\* scan_diploma applied to the detected lines.
ScanDocument ==
  /\ last.op = "text"
  /\ last' = [op |-> "scan", lines |-> last.lines,
              result |-> scan_diploma([error |-> FALSE, lines |-> last.lines])]
  /\ UNCHANGED <<followed, doctors, patients, objects, published>>

ScanNext == ScanDocument

ScanSpec == ScanInit /\ [][ScanNext]_vars

\* ----------------------------------------------------------------- claims
\* The last invocation was a run of one of the two pipeline handlers.
PipelineRun(l) == l.op \in {"diploma", "identity"}

\* The last invocation was a diploma run on a valid event whose scan passed /
\* failed, and whose record update the store applied.
DiplomaPassed(l) == l.op = "diploma" /\ l.valid /\ l.run.body.scan_passed
DiplomaFailed(l) == l.op = "diploma" /\ l.valid /\ ~l.run.body.scan_passed
DiplomaApplied(l) == l.op = "diploma" /\ l.valid /\ l.run.db_applied

\* How often a call occurs in the calls of a run.
CallCount(calls, name) == Cardinality({i \in DOMAIN calls : calls[i] = name})

HighTier == {Some("OFFICER_APPROVED"), Some("VERIFIED")}
LowTier == {Some("UNVERIFIED"), Some("REJECTED_AUTO"), Some("PENDING_REVIEW")}

\* A table keeps every high-tier status across the step.
KeepsHighTier(before, after) ==
  \A id \in DOMAIN before :
    before[id].verificationStatus \in HighTier
      => after[id].verificationStatus \notin LowTier

\* C1: no run of the diploma handler or of the identity handler takes a subject
\* whose verificationStatus is OFFICER_APPROVED or VERIFIED to a lower tier
\* (UNVERIFIED, REJECTED_AUTO, PENDING_REVIEW).
C1_Monotonicity ==
  [][PipelineRun(last')
       => KeepsHighTier(doctors, doctors') /\ KeepsHighTier(patients, patients')]_vars

\* C2: a passing run of the diploma handler whose update is applied leaves
\* verificationStatus = PENDING_REVIEW, and when it repeats the passing run of
\* the same event that came just before it, the stored diploma reference (and
\* the whole doctors table) is the one the first run left.
C2_Idempotent ==
  [][(DiplomaPassed(last') /\ DiplomaApplied(last'))
       => /\ doctors'[last'.run.update.key].verificationStatus = Some("PENDING_REVIEW")
          /\ doctors'[last'.run.update.key].diplomaUrl # None
          /\ (DiplomaPassed(last) /\ DiplomaApplied(last) /\ last.key = last'.key)
               => /\ doctors'[last'.run.update.key].diplomaUrl
                       = doctors[last.run.update.key].diplomaUrl
                  /\ doctors' = doctors]_vars

\* The second passing run of one upload event has been applied.
C2_Witness ==
  /\ DiplomaPassed(last) /\ DiplomaApplied(last)
  /\ published[last.key] = 2
  /\ doctors[last.run.update.key].verificationStatus = Some("PENDING_REVIEW")
  /\ doctors[last.run.update.key].diplomaUrl = Some(<<"s3://", DocBucket, last.key>>)

\* C3: however often the handler runs on one diploma-pass upload event, the
\* reviewer notification is published at most once for that event.
C3_NotifiedAtMostOnce == \A k \in DocKeys : published[k] <= 1

\* C4: for every doctor record, isDiplomaAutoVerified = true implies that
\* verificationStatus is PENDING_REVIEW or OFFICER_APPROVED.
C4_AutoVerifiedImpliesReviewed ==
  \A id \in DOMAIN doctors :
    doctors[id].isDiplomaAutoVerified = Some(TRUE)
      => doctors[id].verificationStatus
           \in {Some("PENDING_REVIEW"), Some("OFFICER_APPROVED")}

\* A doctor whose diploma passed, whose identity matched and whom the officer
\* approved.
C4_Witness ==
  \E id \in DOMAIN doctors :
    /\ doctors[id].isDiplomaAutoVerified = Some(TRUE)
    /\ doctors[id].isIdentityVerified = Some(TRUE)
    /\ doctors[id].verificationStatus = Some("OFFICER_APPROVED")

\* A table's records become OFFICER_APPROVED only from PENDING_REVIEW.
ApprovedOnlyFromPending(before, after) ==
  \A id \in DOMAIN after :
    (/\ after[id].verificationStatus = Some("OFFICER_APPROVED")
     /\ (id \notin DOMAIN before
         \/ before[id].verificationStatus # Some("OFFICER_APPROVED")))
      => /\ id \in DOMAIN before
         /\ before[id].verificationStatus = Some("PENDING_REVIEW")

\* C5: no run of a pipeline handler makes a record OFFICER_APPROVED, and every
\* step that makes a record OFFICER_APPROVED starts from PENDING_REVIEW (never
\* from UNVERIFIED).
C5_NoDirectApproval ==
  [][/\ ApprovedOnlyFromPending(doctors, doctors')
     /\ ApprovedOnlyFromPending(patients, patients')
     /\ PipelineRun(last')
          => \A id \in DOMAIN doctors' :
               doctors'[id].verificationStatus = Some("OFFICER_APPROVED")
                 => /\ id \in DOMAIN doctors
                    /\ doctors[id].verificationStatus = Some("OFFICER_APPROVED")]_vars

\* The officer has just approved a doctor who was under review.
C5_Witness ==
  /\ last.op = "officer"
  /\ doctors[last.key].verificationStatus = Some("OFFICER_APPROVED")

\* C6: when the diploma scan passes and the collaborators succeed, the run
\* issues exactly one update, which carries verificationStatus = PENDING_REVIEW,
\* isDiplomaAutoVerified = true and the diploma reference, the record holds
\* those values afterwards, and one reviewer notification is published.
C6_PassSetsPendingAndNotifies ==
  (DiplomaPassed(last) /\ last.env.db_ok /\ last.env.sns_ok)
    => /\ CallCount(last.calls, "dynamodb.update_item") = 1
       /\ DOMAIN last.run.update.values
            = {"verificationStatus", "isDiplomaAutoVerified", "diplomaUrl"}
       /\ doctors[last.run.update.key].verificationStatus = Some("PENDING_REVIEW")
       /\ doctors[last.run.update.key].isDiplomaAutoVerified = Some(TRUE)
       /\ doctors[last.run.update.key].diplomaUrl
            = Some(<<"s3://", DocBucket, last.key>>)
       /\ CallCount(last.calls, "sns.publish") = 1
       /\ last.run.published
       /\ published[last.key] >= 1

\* A passing run in which extraction, analytics, update and publish succeeded.
C6_Witness ==
  /\ DiplomaPassed(last)
  /\ last.env = [extract_ok |-> TRUE, analytics |-> "inserted",
                 db_ok |-> TRUE, sns_ok |-> TRUE]
  /\ last.run.published
  /\ doctors["d1"].verificationStatus = Some("PENDING_REVIEW")

\* C7: when the diploma scan fails, the update the run issues carries
\* verificationStatus = REJECTED_AUTO and isDiplomaAutoVerified = false, the
\* record holds them once the store applies it, and the run publishes no
\* notification.
C7_FailSetsRejectedAndStaysSilent ==
  [][DiplomaFailed(last')
       => /\ last'.run.update.values.verificationStatus = Some("REJECTED_AUTO")
          /\ last'.run.update.values.isDiplomaAutoVerified = Some(FALSE)
          /\ last'.run.db_applied
               => /\ doctors'[last'.run.update.key].verificationStatus
                       = Some("REJECTED_AUTO")
                  /\ doctors'[last'.run.update.key].isDiplomaAutoVerified
                       = Some(FALSE)
          /\ CallCount(last'.calls, "sns.publish") = 0
          /\ ~last'.run.published
          /\ published' = published]_vars

\* A document without keywords was scanned and the doctor auto-rejected.
C7_Witness ==
  /\ DiplomaFailed(last) /\ last.run.db_applied
  /\ last.run.scan_status = "success"
  /\ doctors["d1"].verificationStatus = Some("REJECTED_AUTO")
  /\ doctors["d1"].isDiplomaAutoVerified = Some(FALSE)

\* The last invocation was a POST to the identity handler.
IdentityPost(l) == l.op = "identity" /\ l.method = "POST"

\* The role a request is handled under, and its tables.
IsDoctorRequest(req) == req.role \in {Some("doctor"), Some("provider")}
RequestRole(req) ==
  IF IsDoctorRequest(req) THEN "doctor"
  ELSE IF req.role = None THEN "patient" ELSE req.role[1]

\* The comparison ran against an existing reference and answered with at
\* least one pair at or above the threshold / with no pair.
CompareAnswered(l) ==
  /\ IdentityPost(l)
  /\ CallCount(l.calls, "rekognition.compare_faces") = 1
  /\ ~l.env.compare.error
  /\ l.run.outcome # "missing_reference"
MatchFound(l) ==
  CompareAnswered(l)
    /\ \E i \in DOMAIN l.env.compare.sims : l.env.compare.sims[i] >= 80
ZeroPairs(l) ==
  CompareAnswered(l)
    /\ \A i \in DOMAIN l.env.compare.sims : l.env.compare.sims[i] < 80

\* The record of the request's subject in the table of its role.
SubjectItem(req, docs, pats) ==
  IF IsDoctorRequest(req) THEN docs[req.userId[1]] ELSE pats[req.userId[1]]

\* C8: when the identity match succeeds (and the selfie is stored), the run
\* returns verified = true with a photoUrl, and issues one update that sets
\* isIdentityVerified = true, avatar = the key of the stored selfie and
\* verificationStatus = PENDING_REVIEW for a doctor, VERIFIED for a patient;
\* the record holds them once the store applies it; no notification is
\* published.
C8_MatchVerifies ==
  [][MatchFound(last')
       => /\ published' = published
          /\ CallCount(last'.calls, "sns.publish") = 0
          /\ last'.env.put_selfie_ok
               => /\ last'.statusCode = 200
                  /\ last'.run.verified
                  /\ last'.run.photoUrl # None
                  /\ last'.run.update # None
                  /\ LET u == last'.run.update[1]
                         selfie == <<RequestRole(last'.req), last'.req.userId[1],
                                     "selfie_verified.jpg">>
                         status == IF IsDoctorRequest(last'.req)
                                   THEN "PENDING_REVIEW" ELSE "VERIFIED"
                         item == SubjectItem(last'.req, doctors', patients')
                     IN  /\ selfie \in DOMAIN objects'
                         /\ u.table = IF IsDoctorRequest(last'.req)
                                      THEN "mediconnect-doctors"
                                      ELSE "mediconnect-patients"
                         /\ u.key = last'.req.userId[1]
                         /\ u.values.isIdentityVerified = Some(TRUE)
                         /\ u.values.avatar = Some(selfie)
                         /\ u.values.verificationStatus = Some(status)
                         /\ last'.run.db_applied
                              => /\ item.isIdentityVerified = Some(TRUE)
                                 /\ item.avatar = Some(selfie)
                                 /\ item.verificationStatus = Some(status)]_vars

\* A patient's selfie matched the ID card and the patient became VERIFIED.
C8_Witness ==
  /\ MatchFound(last) /\ last.run.verified /\ last.run.db_applied
  /\ ~IsDoctorRequest(last.req)
  /\ patients["p1"].verificationStatus = Some("VERIFIED")
  /\ last.req.role = Some("patient")
  /\ patients["p1"].avatar = Some(<<"patient", "p1", "selfie_verified.jpg">>)
  /\ last.run.photoUrl # None

\* C9: when the comparison returns zero face-pairs, the run returns 200 with
\* verified = false, confidence = 0 and photoUrl = null, issues no record
\* update and no selfie upload, and both tables are as they were.
C9_NoMatchChangesNothing ==
  [][ZeroPairs(last')
       => /\ last'.statusCode = 200
          /\ ~last'.run.verified
          /\ last'.run.confidence = 0
          /\ last'.run.photoUrl = None
          /\ last'.run.update = None
          /\ CallCount(last'.calls, "dynamodb.update_item") = 0
          /\ CallCount(last'.calls, "s3.put_object:selfie") = 0
          /\ doctors' = doctors
          /\ patients' = patients]_vars

\* A comparison that found no pair at the threshold, for a doctor who was
\* under review.
C9_Witness ==
  /\ ZeroPairs(last) /\ ~last.run.verified
  /\ IsDoctorRequest(last.req)
  /\ doctors["d1"].verificationStatus = Some("PENDING_REVIEW")

\* A request that passes validation, supplies no ID image, and finds no ID
\* card of its role and subject in the image store.
NoReference(l, objs) ==
  /\ IdentityPost(l)
  /\ l.req.body_ok
  /\ l.req.userId \notin {None, Some("")}
  /\ l.req.selfieImage = Some(ValidB64)
  /\ l.req.idImage \in {None, Some("")}
  /\ <<RequestRole(l.req), l.req.userId[1], "id_card.jpg">> \notin DOMAIN objs

\* C10: when no ID image is supplied and the image store holds no reference
\* image for the role and subject, the run ends with 404 (the comparison
\* service reporting the missing object), and it issues no record update, no
\* upload and no notification: tables, image store and topic are as they were.
C10_MissingReferenceIsNotFound ==
  [][NoReference(last', objects)
       => /\ ~last'.env.compare.error => last'.statusCode = 404
          /\ last'.run.update = None
          /\ last'.calls = <<"rekognition.compare_faces">>
          /\ doctors' = doctors
          /\ patients' = patients
          /\ objects' = objects
          /\ published' = published]_vars

\* A doctor's request without ID image, with no ID card stored, answered 404.
C10_Witness ==
  /\ NoReference(last, objects)
  /\ last.statusCode = 404
  /\ last.run.outcome = "missing_reference"

\* The attributes of each verification dimension of a doctor record.
DiplomaFields == {"isDiplomaAutoVerified", "diplomaUrl"}
IdentityFields == {"isIdentityVerified", "avatar"}

\* Every record of the table keeps the given attributes across the step.
KeepsFields(before, after, fields) ==
  \A id \in DOMAIN before : \A a \in fields : after[id][a] = before[id][a]

\* C11: the diploma handler's update names no identity attribute and leaves
\* isIdentityVerified and avatar of every doctor as they were; the identity
\* handler's update names no diploma attribute and leaves isDiplomaAutoVerified
\* and diplomaUrl as they were; an applied update leaves its own flag and
\* reference at the values it carried. So in either order of the two updates
\* each flag and reference holds what its own dimension wrote.
C11_FieldScopedUpdates ==
  [][/\ (last'.op = "diploma" /\ last'.valid)
          => /\ DOMAIN last'.run.update.values \cap IdentityFields = {}
             /\ KeepsFields(doctors, doctors', IdentityFields)
             /\ last'.run.db_applied
                  => \A a \in DiplomaFields :
                       doctors'[last'.run.update.key][a] = last'.run.update.values[a]
     /\ IdentityPost(last')
          => /\ KeepsFields(doctors, doctors', DiplomaFields)
             /\ (last'.run.update # None)
                  => /\ DOMAIN last'.run.update[1].values \cap DiplomaFields = {}
                     /\ (last'.run.db_applied /\ IsDoctorRequest(last'.req))
                          => \A a \in IdentityFields :
                               doctors'[last'.run.update[1].key][a]
                                 = last'.run.update[1].values[a]]_vars

\* A doctor whose identity matched and whose diploma then failed the scan:
\* the identity flag and avatar survive the diploma update.
C11_Witness ==
  /\ DiplomaFailed(last) /\ last.run.db_applied
  /\ doctors["d1"].isIdentityVerified = Some(TRUE)
  /\ doctors["d1"].avatar = Some(<<"doctor", "d1", "selfie_verified.jpg">>)
  /\ doctors["d1"].isDiplomaAutoVerified = Some(FALSE)
  /\ doctors["d1"].diplomaUrl = Some(<<"s3://", DocBucket, last.key>>)

\* The run the diploma handler / the identity handler would have made on the
\* same input had the record store applied the update (and, for the diploma
\* handler, had the notification been published).
DiplomaRunStored(l) ==
  DiplomaRun(DocBucket, l.key, l.env.extract_ok, l.env.analytics, TRUE, TRUE)
IdentityRunStored(l, objs) ==
  IdentityRun(objs, l.req, [l.env EXCEPT !.db_ok = TRUE])

\* C12: when update_item fails after the decision was computed, the diploma
\* response carries the same scan_passed as the run whose update succeeded and
\* a db_status that reports the failure, and the identity response carries the
\* same verified / confidence / photoUrl and differs from the response of the
\* run whose update succeeded (some field reports the failure).
C12_PersistenceFailureReported ==
  [][/\ (last'.op = "diploma" /\ last'.valid /\ ~last'.env.db_ok)
          => /\ last'.statusCode = 200
             /\ last'.run.body.scan_passed = DiplomaRunStored(last').body.scan_passed
             /\ last'.run.body.db_status # DiplomaRunStored(last').body.db_status
     /\ (IdentityPost(last') /\ last'.run.update # None /\ ~last'.env.db_ok)
          => /\ last'.statusCode = 200
             /\ last'.run.body.verified
                  = IdentityRunStored(last', objects).body.verified
             /\ last'.run.body.confidence
                  = IdentityRunStored(last', objects).body.confidence
             /\ last'.run.body # IdentityRunStored(last', objects).body]_vars

\* The run the diploma handler would have made on the same input had the
\* analytics insert and the notification publish both succeeded.
DiplomaRunBestEffortOk(l) ==
  DiplomaRun(DocBucket, l.key, l.env.extract_ok, "inserted", l.env.db_ok, TRUE)

\* C13: whether or not the analytics insert and the notification publish
\* fail, a diploma run on a valid event completes with 200 and its response
\* (doctor_id, scan_passed, db_status) is the response of the run in which
\* both succeeded.
C13_BestEffortFailuresStaySilent ==
  (last.op = "diploma" /\ last.valid)
    => /\ last.statusCode = 200
       /\ last.run.body = DiplomaRunBestEffortOk(last).body

\* C14: a diploma handler run on an event that carries bucket and key returns
\* 200 with the summary {message, doctor_id, scan_passed, db_status}, whatever
\* the scan says and whichever of extraction, analytics, update and publish
\* fails; a run returns 400 exactly when the event is structurally invalid,
\* and then no collaborator is called.
C14_DiplomaAlwaysOk ==
  last.op = "diploma"
    => /\ last.valid
            => /\ last.statusCode = 200
               /\ DOMAIN last.run.body
                    = {"message", "doctor_id", "scan_passed", "db_status"}
               /\ last.run.body.message = "Processed"
               /\ last.run.body.doctor_id = followed
               /\ last.run.body.scan_passed \in BOOLEAN
       /\ ~last.valid => last.statusCode = 400 /\ last.calls = <<>>
       /\ last.statusCode \in {200, 400}

\* A run in which extraction, analytics and the record update all failed
\* still answered 200.
C14_Witness ==
  /\ last.op = "diploma" /\ last.valid
  /\ last.env = [extract_ok |-> FALSE, analytics |-> "insert_errors",
                 db_ok |-> FALSE, sns_ok |-> FALSE]
  /\ last.statusCode = 200
  /\ ~last.run.body.scan_passed

\* A call was made in the run.
Called(l, name) == CallCount(l.calls, name) >= 1

\* A required field of the request is missing.
MissingField(req) ==
  req.userId \in {None, Some("")} \/ req.selfieImage = None

\* A call the run made to the image store / to the comparison service failed
\* (for the comparison service: with an error other than the missing object).
ImageStoreFailed(l) ==
  \/ Called(l, "s3.put_object:id_card") /\ ~l.env.put_id_ok
  \/ Called(l, "s3.put_object_tagging") /\ ~l.env.tag_ok
  \/ Called(l, "s3.put_object:selfie") /\ ~l.env.put_selfie_ok
ComparisonFailed(l) ==
  Called(l, "rekognition.compare_faces") /\ l.env.compare.error

\* The run was made on a parsable body whose images decode.
Decodable(req) ==
  /\ req.body_ok
  /\ req.selfieImage # Some(InvalidB64)
  /\ req.idImage # Some(InvalidB64)

\* C15: every POST to the identity handler returns a response with a status
\* code and a body; the status is 400 when a required field is missing, 404
\* when the comparison finds no reference image, 500 when a call to the image
\* store or to the comparison service fails otherwise, and 200 when nothing
\* of this happens.
C15_IdentityStatusCodes ==
  IdentityPost(last)
    => /\ last.statusCode \in {200, 400, 404, 500}
       /\ "body" \in DOMAIN last.run
       /\ (last.req.body_ok /\ MissingField(last.req)) => last.statusCode = 400
       /\ last.run.outcome = "missing_reference" => last.statusCode = 404
       /\ (ImageStoreFailed(last) \/ ComparisonFailed(last))
            => last.statusCode = 500
       /\ (/\ Decodable(last.req) /\ ~MissingField(last.req)
           /\ last.run.outcome # "missing_reference"
           /\ ~ImageStoreFailed(last) /\ ~ComparisonFailed(last))
            => last.statusCode = 200

\* The request lacks userId, selfieImage or role, or carries a selfie or an
\* ID image that base64 decoding rejects.
MalformedRequest(req) ==
  \/ MissingField(req)
  \/ req.role = None
  \/ req.selfieImage = Some(InvalidB64)
  \/ req.idImage = Some(InvalidB64)

\* C16: a POST whose body lacks userId, selfieImage or role, or whose selfie
\* or ID image cannot be decoded, is answered 400 and the run makes no call to
\* the image store, the comparison service or the record store.
C16_MalformedRejectedFirst ==
  (IdentityPost(last) /\ last.req.body_ok /\ MalformedRequest(last.req))
    => /\ last.statusCode = 400
       /\ last.calls = <<>>

\* C17: in a run whose comparison answered, verified = true requires a
\* measured pair with similarity >= 80, the confidence returned is the
\* similarity of such a pair (the best one), and a completed run (200) is
\* verified exactly when such a pair exists; pairs below 80 alone never give
\* verified = true.
C17_MatchAtThreshold ==
  IdentityPost(last)
    => LET sims == last.env.compare.sims
           atLeast == {i \in DOMAIN sims : sims[i] >= 80}
       IN  /\ last.run.verified
                => /\ CompareAnswered(last)
                   /\ atLeast # {}
                   /\ last.run.confidence >= 80
                   /\ \E i \in atLeast : last.run.confidence = sims[i]
                   /\ \A i \in DOMAIN sims : sims[i] <= last.run.confidence
           /\ (CompareAnswered(last) /\ last.statusCode = 200)
                => (last.run.verified <=> atLeast # {})
           /\ (CompareAnswered(last) /\ atLeast = {})
                => ~last.run.verified /\ last.run.confidence = 0

\* A pair measured at exactly 80 (next to one at 79) was declared a match.
C17_Witness ==
  /\ CompareAnswered(last)
  /\ last.env.compare.sims = <<80, 79>>
  /\ last.run.verified
  /\ last.run.confidence = 80

\* The words of a line: its maximal runs of letters, digits and underscores,
\* as <<first, last>> positions.
WordsOf(line) ==
  {w \in (DOMAIN line) \X (DOMAIN line) :
     /\ w[1] <= w[2]
     /\ \A k \in w[1]..w[2] : IsWordChar(line[k])
     /\ (w[1] = 1 \/ ~IsWordChar(line[w[1] - 1]))
     /\ (w[2] = Len(line) \/ ~IsWordChar(line[w[2] + 1]))}

\* The keyword is one of the words of some line, in any letter case.
IsWholeWord(kw, lines) ==
  \E n \in DOMAIN lines : \E w \in WordsOf(lines[n]) :
    /\ w[2] - w[1] + 1 = Len(kw)
    /\ \A k \in 1..Len(kw) : Lower(lines[n][w[1] + k - 1]) = Lower(kw[k])

\* C18: for every scanned text, verification_passed holds iff one of the ten
\* keywords is a whole word of the text in any letter case, and
\* confidence_matches is exactly the keywords that are whole words of the
\* text, in declaration order; MD inside ABCMDXYZ and Degree inside degrees
\* are not matched.
C18_WholeWordKeywords ==
  last.op = "scan"
    => /\ Len(required_keywords) = 10
       /\ last.result.verification_passed
            <=> \E i \in DOMAIN required_keywords :
                  IsWholeWord(required_keywords[i], last.lines)
       /\ last.result.confidence_matches
            = SelectSeq(required_keywords,
                        LAMBDA kw : IsWholeWord(kw, last.lines))
       /\ last.lines = << <<"A","B","C","M","D","X","Y","Z">>,
                          <<"d","e","g","r","e","e","s">> >>
            => /\ ~last.result.verification_passed
               /\ last.result.confidence_matches = <<>>

\* A text that names MD in lower case before Degree: both are matched, in
\* declaration order (MD is declared before Degree).
C18_Witness ==
  /\ last.op = "scan"
  /\ last.lines = << <<"D","e","g","r","e","e">>, <<"m","d">> >>
  /\ last.result.verification_passed
  /\ last.result.confidence_matches = << <<"M","D">>, <<"D","e","g","r","e","e">> >>

\* The last invocation was a diploma run whose text extraction failed.
ExtractionFailed(l) == l.op = "diploma" /\ l.valid /\ ~l.env.extract_ok

\* C19: when Textract fails, the scan outcome the handler works on is a fail
\* (verification_passed = false, no keyword) marked status = "error", which
\* only an extraction failure produces; the handler takes its fail path
\* (REJECTED_AUTO update, no notification) and returns 200 with the summary
\* {message, doctor_id, scan_passed = false, db_status}.
C19_ExtractionFailureIsAFail ==
  (last.op = "diploma" /\ last.valid)
    => /\ last.run.scan_status = "error" <=> ~last.env.extract_ok
       /\ ExtractionFailed(last)
            => /\ ~last.run.body.scan_passed
               /\ last.run.matches = <<>>
               /\ last.run.update.values.verificationStatus = Some("REJECTED_AUTO")
               /\ ~last.run.publish_called
               /\ last.statusCode = 200
               /\ DOMAIN last.run.body
                    = {"message", "doctor_id", "scan_passed", "db_status"}
               /\ last.run.body.db_status
                    \in {"DynamoDB Updated (Auto-Rejected)", "DynamoDB Update Failed"}

\* Textract failed on a document whose text would have passed the scan.
C19_Witness ==
  /\ ExtractionFailed(last)
  /\ last.key = KeyNested
  /\ last.run.scan_status = "error"
  /\ ~last.run.body.scan_passed
  /\ last.statusCode = 200

\* C20: a diploma run whose text extraction failed, and an identity run whose
\* comparison failed, issue no update_item call and leave both tables as
\* they were.
C20_UpstreamFailureWritesNothing ==
  [][/\ ExtractionFailed(last')
          => /\ ~Called(last', "dynamodb.update_item")
             /\ doctors' = doctors
     /\ (IdentityPost(last') /\ ComparisonFailed(last'))
          => /\ ~Called(last', "dynamodb.update_item")
             /\ last'.run.update = None
             /\ doctors' = doctors
             /\ patients' = patients]_vars

\* The request carries a non-empty ID image.
IdProvided(req) == req.idImage \notin {None, Some("")}

\* The first call of the run precedes the second one.
CalledBefore(calls, first, second) ==
  \E i, j \in DOMAIN calls : i < j /\ calls[i] = first /\ calls[j] = second

\* C21: in an identity run whose request supplies an ID image, compare_faces
\* is called only after put_object stored the image under
\* {role}/{userId}/id_card.jpg (the object is then in the bucket), and a run
\* whose put_object or put_object_tagging of the ID card fails never calls
\* compare_faces.
C21_ReferenceStoredBeforeCompare ==
  (IdentityPost(last) /\ last.req.body_ok /\ IdProvided(last.req))
    => /\ Called(last, "rekognition.compare_faces")
            => /\ CalledBefore(last.calls, "s3.put_object:id_card",
                               "rekognition.compare_faces")
               /\ last.env.put_id_ok
               /\ <<RequestRole(last.req), last.req.userId[1], "id_card.jpg">>
                    \in DOMAIN objects
       /\ (Called(last, "s3.put_object:id_card") /\ ~last.env.put_id_ok)
            => ~Called(last, "rekognition.compare_faces")
       /\ (Called(last, "s3.put_object_tagging") /\ ~last.env.tag_ok)
            => ~Called(last, "rekognition.compare_faces")

\* A provider's ID image was stored and then compared with the selfie.
C21_Witness ==
  /\ IdentityPost(last) /\ IdProvided(last.req)
  /\ last.req.role = Some("provider")
  /\ Called(last, "rekognition.compare_faces")
  /\ last.calls[1] = "s3.put_object:id_card"
  /\ <<"doctor", "d1", "id_card.jpg">> \in DOMAIN objects

\* C22: once an identity run has returned, the ID-card object it stored with
\* put_object carries the auto-delete tag, also when put_object_tagging or a
\* later step of the run failed.
C22_StoredIdCardIsTagged ==
  (/\ IdentityPost(last)
   /\ Called(last, "s3.put_object:id_card")
   /\ last.env.put_id_ok)
    => LET id_card_key == <<RequestRole(last.req), last.req.userId[1],
                            "id_card.jpg">>
       IN  /\ id_card_key \in DOMAIN objects
           /\ objects[id_card_key].tagged

\* The avatar attribute of a record is absent or the key
\* {role}/{id}/selfie_verified.jpg of an object stored in the bucket.
AvatarIsSelfieKey(table) ==
  \A id \in DOMAIN table :
    table[id].avatar # None
      => LET a == table[id].avatar[1]
         IN  /\ Len(a) = 3
             /\ a[1] # "https://"
             /\ a[2] = id
             /\ a[3] = "selfie_verified.jpg"
             /\ a \in DOMAIN objects

\* C23: every avatar stored in the doctors and patients tables is the storage
\* key of the subject's verified selfie; the update an identity run issues
\* carries that key, while the presigned URL of the key is returned as
\* photoUrl only (and only when verified).
C23_AvatarIsKeyNotUrl ==
  /\ AvatarIsSelfieKey(doctors)
  /\ AvatarIsSelfieKey(patients)
  /\ IdentityPost(last)
       => /\ last.run.update # None
               => LET selfie_key == <<RequestRole(last.req), last.req.userId[1],
                                      "selfie_verified.jpg">>
                  IN  /\ last.run.update[1].values.avatar = Some(selfie_key)
                      /\ last.run.body.photoUrl
                           = Some(<<"https://", BUCKET_NAME, selfie_key,
                                    "X-Amz-Expires", 3600>>)
          /\ last.run.update = None => last.run.photoUrl = None

\* A doctor's avatar is the selfie key while the response carried the URL.
C23_Witness ==
  /\ IdentityPost(last) /\ last.run.update # None /\ last.run.db_applied
  /\ doctors["d1"].avatar = Some(<<"doctor", "d1", "selfie_verified.jpg">>)
  /\ last.run.body.photoUrl
       = Some(<<"https://", BUCKET_NAME,
                <<"doctor", "d1", "selfie_verified.jpg">>, "X-Amz-Expires", 3600>>)

C25_NotifyOnlyAfterUpdate ==
  [][/\ (last'.op = "diploma" /\ last'.valid)
          => /\ (Called(last', "sns.publish") \/ published' # published)
                  => /\ last'.run.body.scan_passed
                     /\ last'.env.db_ok
                     /\ CalledBefore(last'.calls, "dynamodb.update_item",
                                     "sns.publish")
                     /\ last'.run.update.values.verificationStatus
                          = Some("PENDING_REVIEW")
                     /\ doctors'[last'.run.update.key].verificationStatus
                          = Some("PENDING_REVIEW")
             /\ (~last'.run.body.scan_passed \/ ~last'.env.db_ok)
                  => /\ ~Called(last', "sns.publish")
                     /\ published' = published
     /\ ~(last'.op = "diploma" /\ last'.valid) => published' = published]_vars

\* The alert went out after the update, in a run whose analytics insert failed.
C25_Witness ==
  /\ last.op = "diploma" /\ last.valid
  /\ last.env.analytics = "insert_errors"
  /\ last.run.published
  /\ last.calls = <<"textract.detect_document_text", "record_doctor_event",
                    "dynamodb.update_item", "sns.publish">>
  /\ published[last.key] = 1

\* The invocation applied an update to a record of the doctors table; the
\* update it applied.
AppliedDoctorUpdate(l) ==
  \/ l.op = "diploma" /\ l.valid /\ l.run.db_applied
  \/ /\ IdentityPost(l) /\ l.run.update # None /\ l.run.db_applied
     /\ l.run.update[1].table = "mediconnect-doctors"
DoctorUpdateOf(l) ==
  IF l.op = "diploma" THEN l.run.update
  ELSE [key |-> l.run.update[1].key, values |-> l.run.update[1].values]

\* C26: when a diploma run and an identity run update the same doctor one
\* after the other, the verificationStatus the record ends with is the one it
\* would end with had the two updates been applied in the other order (the
\* earlier update applied last).
C26_StatusOrderIndependent ==
  [][(/\ AppliedDoctorUpdate(last) /\ AppliedDoctorUpdate(last')
      /\ last.op # last'.op
      /\ DoctorUpdateOf(last).key = DoctorUpdateOf(last').key)
       => LET id == DoctorUpdateOf(last').key
              swapped == UpdateItem(doctors', DoctorAttrs, id,
                                    DoctorUpdateOf(last).values)
          IN  doctors'[id].verificationStatus = swapped[id].verificationStatus]_vars

\* C27: no record of the doctors table holds VERIFIED and no record of the
\* patients table holds PENDING_REVIEW or REJECTED_AUTO; every update a
\* pipeline run issues carries PENDING_REVIEW or REJECTED_AUTO when addressed
\* to the doctors table and VERIFIED when addressed to the patients table,
\* whatever role the request names (doctor, provider, patient, none, or a
\* value the handler does not know).
C27_RoleSeparation ==
  /\ \A id \in DOMAIN doctors :
       doctors[id].verificationStatus # Some("VERIFIED")
  /\ \A id \in DOMAIN patients :
       patients[id].verificationStatus
         \notin {Some("PENDING_REVIEW"), Some("REJECTED_AUTO")}
  /\ (last.op = "diploma" /\ last.valid)
       => last.run.update.values.verificationStatus
            \in {Some("PENDING_REVIEW"), Some("REJECTED_AUTO")}
  /\ (IdentityPost(last) /\ last.run.update # None)
       => LET u == last.run.update[1]
          IN  /\ u.table = "mediconnect-doctors"
                   <=> last.req.role \in {Some("doctor"), Some("provider")}
              /\ u.table = "mediconnect-doctors"
                   => u.values.verificationStatus = Some("PENDING_REVIEW")
              /\ u.table = "mediconnect-patients"
                   => u.values.verificationStatus = Some("VERIFIED")

\* A request naming a role the handler does not know was verified in the
\* patients table.
C27_Witness ==
  /\ IdentityPost(last) /\ last.run.update # None /\ last.run.db_applied
  /\ last.req.role = Some("admin")
  /\ last.run.update[1].table = "mediconnect-patients"
  /\ patients["p1"].verificationStatus = Some("VERIFIED")

\* C28: no run of the diploma handler or of the identity handler adds a
\* record: the ids of the doctors table and of the patients table are the
\* same before and after the run, also when the run's subject id (the
\* sentinel "unknown_doc" included) has no record.
C28_NoPhantomSubjects ==
  [][PipelineRun(last')
       => /\ DOMAIN doctors' = DOMAIN doctors
          /\ DOMAIN patients' = DOMAIN patients]_vars

====
